---- MODULE Spec2Model ----
(***************************************************************************)
(* Model of the wgsl-fuzz helper scripts:                                  *)
(*   scripts/generateUniformityGraph.py  (extract_digraph, main)           *)
(*   scripts/extract_shader_from_job.py                                    *)
(*   scripts/replace_shader_in_job.py                                      *)
(*                                                                         *)
(* Text is a sequence of characters.  The literal word "digraph" is one    *)
(* element of the alphabet and "x" stands for any character that is not    *)
(* a brace, white space, a line break, "G" or part of the word "digraph".  *)
(***************************************************************************)
EXTENDS Integers, Sequences, FiniteSets, TLC

\* ------------------------------------------------------------- alphabet
DIGRAPH == "digraph"
SP == " "
TAB == "\t"
LF == "\n"
CR == "\r"
LBRACE == "{"
RBRACE == "}"

\* ------------------------------------------------------------- bounds
\* most lines the compiler prints
MaxLines == 5

\* the lines the compiler may print
LineSet ==
    { <<DIGRAPH, SP, "G", SP, LBRACE>>,
      <<DIGRAPH, TAB, "G", LBRACE, "x", RBRACE>>,
      <<DIGRAPH, "G", LBRACE>>,
      <<"x">>,
      <<"x", LBRACE>>,
      <<RBRACE>>,
      <<>> }

RECURSIVE JoinLF(_)
JoinLF(ls) ==
    IF ls = <<>> THEN <<>>
    ELSE IF Len(ls) = 1 THEN ls[1]
    ELSE ls[1] \o <<LF>> \o JoinLF(Tail(ls))

\* what the compiler may write to its standard output
TintOutputs ==
    { JoinLF(ls) : ls \in UNION { [1..n -> LineSet] : n \in 0..MaxLines } }

\* ------------------------------------------------------------- state
VARIABLES
    pc,            \* position of main() in generateUniformityGraph.py
    tint_output,   \* what the compiler prints when it runs
    tint_state,    \* "not_started", "running", "done"
    stdout,        \* the text returned by process.communicate()
    lines,         \* compiler_output.splitlines()
    idx,           \* index of the line the for loop is at
    depth,
    in_graph,
    result,
    graph,
    tmp_exists,    \* the NamedTemporaryFile is on disk
    tmp_buffer,    \* written to the file object, not yet flushed
    tmp_content,   \* what the file on disk holds
    dot_state,     \* "not_run", "running", "done"
    dot_status,    \* exit status of dot
    console,       \* messages printed by main()
    exit_status,   \* -1 while running
    \* the job scripts
    jpc,           \* position of the running job script, "shell" between runs
    script,        \* "extract", "replace", "none"
    argv_len,      \* len(sys.argv)
    job_file,      \* content of the job JSON file on disk
    shader_file,   \* content of the shader text file on disk
    text,          \* what open(sys.argv[1], 'r').read() returned
    jsonJob,
    shaderText,
    opened,        \* files the running script has opened
    out,           \* standard output of the running script
    status,        \* exit status of the running script, -1 while it runs
    prev,          \* script and exit status of the run before this one
    job_before     \* job_file as it was when the running script started

gvars == <<pc, tint_output, tint_state, stdout, lines, idx, depth, in_graph,
           result, graph, tmp_exists, tmp_buffer, tmp_content, dot_state,
           dot_status, console, exit_status>>

jvars == <<jpc, script, argv_len, job_file, shader_file, text, jsonJob, shaderText,
           opened, out, status, prev, job_before>>

vars == <<gvars, jvars>>

\* ------------------------------------------------------------- str helpers
\* str.count(c)
count(line, c) == Cardinality({ i \in 1..Len(line) : line[i] = c })

\* str.splitlines(): line breaks are dropped, a final line break opens no line
RECURSIVE splitlines(_)
splitlines(s) ==
    IF s = <<>> THEN <<>>
    ELSE LET brk == { i \in 1..Len(s) : s[i] = LF }
         IN  IF brk = {} THEN <<s>>
             ELSE LET i == CHOOSE k \in brk : \A m \in brk : k <= m
                  IN  <<SubSeq(s, 1, i - 1)>> \o splitlines(SubSeq(s, i + 1, Len(s)))

\* \s inside one line
IsSpace(c) == c \in {SP, TAB}

\* first position at or after i that holds no white space (Len+1 if none)
AfterSpaces(line, i) ==
    CHOOSE j \in i..(Len(line) + 1) :
        /\ \A k \in i..(j - 1) : IsSpace(line[k])
        /\ (j = Len(line) + 1 \/ ~IsSpace(line[j]))

\* re.compile(r'^digraph\s+G\s*\{').match(line)
graph_start_match(line) ==
    /\ Len(line) >= 1
    /\ line[1] = DIGRAPH
    /\ LET a == AfterSpaces(line, 2)
       IN  /\ a > 2
           /\ a <= Len(line)
           /\ line[a] = "G"
           /\ LET b == AfterSpaces(line, a + 1)
              IN  /\ b <= Len(line)
                  /\ line[b] = LBRACE

\* ------------------------------------------------------------- extract_digraph
\* if not in_graph and graph_start.match(line): in_graph = True
StartsGraph(ig, line) == ig \/ graph_start_match(line)

AccumulateAlways(ig, res, line) == res \o line

\* if in_graph: result += line
Accumulate(ig, res, line) == IF ig THEN res \o line ELSE res

\* depth += line.count('{') - line.count('}')
NewDepth(d, line) == d + count(line, LBRACE) - count(line, RBRACE)

\* if depth == 0: break
LoopBreaks(d) == d = 0

\* ------------------------------------------------------------- main
\* main() is entered, the arguments parsed
MainStart ==
    /\ pc = "popen"
    /\ tint_output \in TintOutputs
    /\ tint_state = "not_started"
    /\ stdout = <<>>
    /\ lines = <<>>
    /\ idx = 0
    /\ depth = 0
    /\ in_graph = FALSE
    /\ result = <<>>
    /\ graph = <<>>
    /\ tmp_exists = FALSE
    /\ tmp_buffer = <<>>
    /\ tmp_content = <<>>
    /\ dot_state = "not_run"
    /\ dot_status = -1
    /\ console = <<>>
    /\ exit_status = -1

\* process = subprocess.Popen(f"tint {args.filename}", ...)
Popen ==
    /\ pc = "popen"
    /\ tint_state' = "running"
    /\ pc' = "communicate"
    /\ UNCHANGED <<tint_output, stdout, lines, idx, depth, in_graph, result, graph,
                   tmp_exists, tmp_buffer, tmp_content, dot_state, dot_status,
                   console, exit_status>>
    /\ UNCHANGED jvars

\* stdout, stderr = process.communicate(): returns when the compiler has ended
Communicate ==
    /\ pc = "communicate"
    /\ tint_state' = "done"
    /\ stdout' = tint_output
    /\ pc' = "extract"
    /\ UNCHANGED <<tint_output, lines, idx, depth, in_graph, result, graph,
                   tmp_exists, tmp_buffer, tmp_content, dot_state, dot_status,
                   console, exit_status>>
    /\ UNCHANGED jvars

\* extract_digraph(stdout): the locals are set and the line iterator is built
ExtractEnter ==
    /\ pc = "extract"
    /\ depth' = 0
    /\ in_graph' = FALSE
    /\ result' = <<>>
    /\ lines' = splitlines(stdout)
    /\ idx' = 1
    /\ pc' = "scan"
    /\ UNCHANGED <<tint_output, tint_state, stdout, graph, tmp_exists, tmp_buffer,
                   tmp_content, dot_state, dot_status, console, exit_status>>
    /\ UNCHANGED jvars

\* one iteration of the for loop; on break idx stays at the line that broke
ScanLine ==
    /\ pc = "scan"
    /\ idx <= Len(lines)
    /\ LET line == lines[idx]
           ig == StartsGraph(in_graph, line)
           d == NewDepth(depth, line)
       IN  /\ in_graph' = ig
           /\ result' = Accumulate(ig, result, line)
           /\ depth' = d
           /\ IF LoopBreaks(d)
              THEN /\ pc' = "return"
                   /\ idx' = idx
              ELSE /\ pc' = "scan"
                   /\ idx' = idx + 1
    /\ UNCHANGED <<tint_output, tint_state, stdout, lines, graph, tmp_exists,
                   tmp_buffer, tmp_content, dot_state, dot_status, console,
                   exit_status>>
    /\ UNCHANGED jvars

\* the iterator is exhausted
ScanEnd ==
    /\ pc = "scan"
    /\ idx > Len(lines)
    /\ pc' = "return"
    /\ UNCHANGED <<tint_output, tint_state, stdout, lines, idx, depth, in_graph,
                   result, graph, tmp_exists, tmp_buffer, tmp_content, dot_state,
                   dot_status, console, exit_status>>
    /\ UNCHANGED jvars

\* return result; graph = extract_digraph(stdout)
ExtractReturn ==
    /\ pc = "return"
    /\ graph' = result
    /\ pc' = "check"
    /\ UNCHANGED <<tint_output, tint_state, stdout, lines, idx, depth, in_graph,
                   result, tmp_exists, tmp_buffer, tmp_content, dot_state,
                   dot_status, console, exit_status>>
    /\ UNCHANGED jvars

GraphIsNone(g) == FALSE

\* if graph == "":
GraphMissing(g) == g = <<>>

\* print("Could not find a digraph ..."); exit(1)
NoDigraphExit ==
    /\ pc = "check"
    /\ GraphMissing(graph)
    /\ console' = Append(console, "Could not find a digraph in the compiler output")
    /\ exit_status' = 1
    /\ pc' = "exited"
    /\ UNCHANGED <<tint_output, tint_state, stdout, lines, idx, depth, in_graph,
                   result, graph, tmp_exists, tmp_buffer, tmp_content, dot_state,
                   dot_status>>
    /\ UNCHANGED jvars

\* with tempfile.NamedTemporaryFile(delete=True, mode='w') as tmp_dot_file:
TempOpen ==
    /\ pc = "check"
    /\ ~GraphMissing(graph)
    /\ tmp_exists' = TRUE
    /\ tmp_buffer' = <<>>
    /\ tmp_content' = <<>>
    /\ pc' = "write"
    /\ UNCHANGED <<tint_output, tint_state, stdout, lines, idx, depth, in_graph,
                   result, graph, dot_state, dot_status, console, exit_status>>
    /\ UNCHANGED jvars

\* tmp_dot_file.write(graph)
TempWrite ==
    /\ pc = "write"
    /\ tmp_buffer' = tmp_buffer \o graph
    /\ pc' = "flush"
    /\ UNCHANGED <<tint_output, tint_state, stdout, lines, idx, depth, in_graph,
                   result, graph, tmp_exists, tmp_content, dot_state, dot_status,
                   console, exit_status>>
    /\ UNCHANGED jvars

TempFlushSkipped ==
    /\ pc = "flush"
    /\ pc' = "run_dot"
    /\ UNCHANGED <<tint_output, tint_state, stdout, lines, idx, depth, in_graph,
                   result, graph, tmp_exists, tmp_buffer, tmp_content, dot_state,
                   dot_status, console, exit_status>>
    /\ UNCHANGED jvars

\* tmp_dot_file.flush()
TempFlush ==
    /\ pc = "flush"
    /\ tmp_content' = tmp_content \o tmp_buffer
    /\ tmp_buffer' = <<>>
    /\ pc' = "run_dot"
    /\ UNCHANGED <<tint_output, tint_state, stdout, lines, idx, depth, in_graph,
                   result, graph, tmp_exists, dot_state, dot_status, console,
                   exit_status>>
    /\ UNCHANGED jvars

\* subprocess.run(f"dot {tmp_dot_file.name} ...", shell=True): the child starts
DotStart ==
    /\ pc = "run_dot"
    /\ dot_state' = "running"
    /\ pc' = "wait_dot"
    /\ UNCHANGED <<tint_output, tint_state, stdout, lines, idx, depth, in_graph,
                   result, graph, tmp_exists, tmp_buffer, tmp_content, dot_status,
                   console, exit_status>>
    /\ UNCHANGED jvars

\* subprocess.run returns; without check=True a failing dot raises nothing
DotReturn ==
    /\ pc = "wait_dot"
    /\ \E st \in {0, 1} : dot_status' = st
    /\ dot_state' = "done"
    /\ pc' = "close"
    /\ UNCHANGED <<tint_output, tint_state, stdout, lines, idx, depth, in_graph,
                   result, graph, tmp_exists, tmp_buffer, tmp_content, console,
                   exit_status>>
    /\ UNCHANGED jvars

\* the with block ends: the file is closed and, with delete=True, removed
TempClose ==
    /\ pc = "close"
    /\ tmp_exists' = FALSE
    /\ tmp_content' = <<>>
    /\ exit_status' = 0
    /\ pc' = "exited"
    /\ UNCHANGED <<tint_output, tint_state, stdout, lines, idx, depth, in_graph,
                   result, graph, tmp_buffer, dot_state, dot_status, console>>
    /\ UNCHANGED jvars

Next ==
    \/ Popen
    \/ Communicate
    \/ ExtractEnter
    \/ ScanLine
    \/ ScanEnd
    \/ ExtractReturn
    \/ NoDigraphExit
    \/ TempOpen
    \/ TempWrite
    \/ TempFlush
    \/ DotStart
    \/ DotReturn
    \/ TempClose

\* ------------------------------------------------------------- job files
QUOTE == "\""
BSL == "\\"
COLON == ":"
COMMA == ","
SHADERTEXT == <<"shaderText">>
USAGE_EXTRACT == "Usage: extract_shader_from_job.py <job JSON file>"
USAGE_REPLACE == "Usage: replace_shader_in_job.py <job JSON file> <shader text file>"

\* a JSON string literal holding the characters s as they stand
Lit(s) == <<QUOTE>> \o s \o <<QUOTE>>

\* the job files a run may start from
JobFiles ==
    { <<LBRACE>> \o Lit(SHADERTEXT) \o <<COLON, SP>> \o Lit(<<"a">>) \o <<RBRACE>>,
      <<LBRACE>> \o Lit(<<"k">>) \o <<COLON, "7", COMMA, SP>> \o Lit(SHADERTEXT)
          \o <<COLON>> \o Lit(<<"a", BSL, "n">>) \o <<RBRACE>>,
      <<LBRACE, CR, LF, SP>> \o Lit(SHADERTEXT) \o <<COLON, SP>> \o Lit(<<BSL, QUOTE>>)
          \o <<COMMA, LF, SP>> \o Lit(<<"k">>) \o <<COLON, SP, LBRACE>> \o Lit(<<"n">>)
          \o <<COLON, SP>> \o Lit(<<BSL, BSL>>) \o <<RBRACE, LF, RBRACE, LF>>,
      <<LBRACE>> \o Lit(<<"k">>) \o <<COLON>> \o Lit(<<"a">>) \o <<COMMA>> \o Lit(<<"k">>)
          \o <<COLON, "7", "7", RBRACE>>,
      <<LBRACE>> \o Lit(SHADERTEXT) \o <<COLON, "7", RBRACE>>,
      Lit(<<"a">>),
      <<LBRACE>> \o Lit(SHADERTEXT) \o <<COLON>>,
      <<>> }

\* the shader files a run may be given
ShaderFiles ==
    { <<>>,
      <<"a">>,
      <<"a", LF>>,
      <<"a", CR, LF, "a">>,
      <<CR>>,
      <<QUOTE, "a", QUOTE>>,
      <<BSL, "n">>,
      <<TAB, LBRACE, RBRACE>> }

\* ------------------------------------------------------------- file and console
\* open(path, 'r').read(): text mode reads "\r\n" and "\r" as "\n"
RECURSIVE read(_)
read(bytes) ==
    IF bytes = <<>> THEN <<>>
    ELSE IF bytes[1] = CR
         THEN IF Len(bytes) >= 2 /\ bytes[2] = LF
              THEN <<LF>> \o read(SubSeq(bytes, 3, Len(bytes)))
              ELSE <<LF>> \o read(Tail(bytes))
         ELSE <<bytes[1]>> \o read(Tail(bytes))

\* print(s): the text and a line break
print(s) == s \o <<LF>>

\* ------------------------------------------------------------- json values
StrVal(s) == [t |-> "str", s |-> s, items |-> <<>>]
NumVal(n) == [t |-> "num", s |-> n, items |-> <<>>]
ObjVal(items) == [t |-> "obj", s |-> <<>>, items |-> items]
NoVal == [t |-> "none", s |-> <<>>, items |-> <<>>]

HasKey(items, k) == \E i \in 1..Len(items) : items[i].k = k

\* d[k]
GetItem(items, k) == items[CHOOSE i \in 1..Len(items) : items[i].k = k].v

\* d[k] = v: a key the dict holds keeps its place, a new key goes last
SetItem(items, k, v) ==
    IF HasKey(items, k)
    THEN [i \in 1..Len(items) |-> IF items[i].k = k THEN [k |-> k, v |-> v] ELSE items[i]]
    ELSE Append(items, [k |-> k, v |-> v])

\* ------------------------------------------------------------- json.loads
Fail == [ok |-> FALSE, val |-> NoVal, pos |-> 0]

IsWs(c) == c \in {SP, TAB, LF, CR}

\* first position at or after i that holds no JSON white space
SkipWs(t, i) ==
    CHOOSE j \in i..(Len(t) + 1) :
        /\ \A k \in i..(j - 1) : IsWs(t[k])
        /\ (j = Len(t) + 1 \/ ~IsWs(t[j]))

\* first position at or after i that holds no digit
SkipDigits(t, i) ==
    CHOOSE j \in i..(Len(t) + 1) :
        /\ \A k \in i..(j - 1) : t[k] = "7"
        /\ (j = Len(t) + 1 \/ t[j] # "7")

\* the character an escape sequence stands for, <<>> for an invalid escape
Unescape(e) ==
    IF e \in {QUOTE, BSL} THEN <<e>>
    ELSE IF e = "n" THEN <<LF>>
    ELSE IF e = "r" THEN <<CR>>
    ELSE IF e = "t" THEN <<TAB>>
    ELSE <<>>

\* the body of a string literal from position j on, up to the closing quote
RECURSIVE ScanStr(_, _, _)
ScanStr(t, j, acc) ==
    IF j > Len(t) THEN Fail
    ELSE IF t[j] = QUOTE THEN [ok |-> TRUE, val |-> StrVal(acc), pos |-> j + 1]
    ELSE IF t[j] = BSL
         THEN IF j + 1 > Len(t) \/ Unescape(t[j + 1]) = <<>> THEN Fail
              ELSE ScanStr(t, j + 2, acc \o Unescape(t[j + 1]))
    ELSE IF t[j] \in {LF, CR, TAB} THEN Fail
    ELSE ScanStr(t, j + 1, Append(acc, t[j]))

RECURSIVE ParseValue(_, _)
RECURSIVE ParseMembers(_, _, _)
ParseValue(t, i) ==
    IF i > Len(t) THEN Fail
    ELSE IF t[i] = QUOTE THEN ScanStr(t, i + 1, <<>>)
    ELSE IF t[i] = "7"
         THEN LET j == SkipDigits(t, i)
              IN  [ok |-> TRUE, val |-> NumVal(SubSeq(t, i, j - 1)), pos |-> j]
    ELSE IF t[i] = LBRACE
         THEN LET j == SkipWs(t, i + 1)
              IN  IF j <= Len(t) /\ t[j] = RBRACE
                  THEN [ok |-> TRUE, val |-> ObjVal(<<>>), pos |-> j + 1]
                  ELSE ParseMembers(t, j, <<>>)
    ELSE Fail

\* "key": value pairs from position i on, up to the closing brace
ParseMembers(t, i, items) ==
    IF i > Len(t) \/ t[i] # QUOTE THEN Fail
    ELSE LET key == ScanStr(t, i + 1, <<>>)
         IN  IF ~key.ok THEN Fail
             ELSE LET a == SkipWs(t, key.pos)
                  IN  IF a > Len(t) \/ t[a] # COLON THEN Fail
                      ELSE LET v == ParseValue(t, SkipWs(t, a + 1))
                           IN  IF ~v.ok THEN Fail
                               ELSE LET c == SkipWs(t, v.pos)
                                        d == SetItem(items, key.val.s, v.val)
                                    IN  IF c > Len(t) THEN Fail
                                        ELSE IF t[c] = COMMA
                                             THEN ParseMembers(t, SkipWs(t, c + 1), d)
                                        ELSE IF t[c] = RBRACE
                                             THEN [ok |-> TRUE, val |-> ObjVal(d), pos |-> c + 1]
                                        ELSE Fail

\* json.loads(t): ok is FALSE where it raises JSONDecodeError
loads(t) ==
    LET r == ParseValue(t, SkipWs(t, 1))
    IN  IF ~r.ok THEN Fail
        ELSE IF SkipWs(t, r.pos) <= Len(t) THEN Fail
        ELSE r

\* ------------------------------------------------------------- json.dumps
EscapeChar(c) ==
    IF c = QUOTE THEN <<BSL, QUOTE>>
    ELSE IF c = BSL THEN <<BSL, BSL>>
    ELSE IF c = LF THEN <<BSL, "n">>
    ELSE IF c = CR THEN <<BSL, "r">>
    ELSE IF c = TAB THEN <<BSL, "t">>
    ELSE <<c>>

RECURSIVE EscapeAll(_)
EscapeAll(s) == IF s = <<>> THEN <<>> ELSE EscapeChar(s[1]) \o EscapeAll(Tail(s))

\* a string as a JSON string literal
EncodeStr(s) == <<QUOTE>> \o EscapeAll(s) \o <<QUOTE>>

\* indent=4
IndentWidth == 4

Indent(level) == [i \in 1..(IndentWidth * level) |-> SP]

RECURSIVE Encode(_, _)
RECURSIVE EncodeItems(_, _)
Encode(v, level) ==
    IF v.t = "str" THEN EncodeStr(v.s)
    ELSE IF v.t = "num" THEN v.s
    ELSE IF v.items = <<>> THEN <<LBRACE, RBRACE>>
    ELSE <<LBRACE, LF>> \o EncodeItems(v.items, level + 1)
             \o <<LF>> \o Indent(level) \o <<RBRACE>>

EncodeItems(items, level) ==
    Indent(level) \o EncodeStr(items[1].k) \o <<COLON, SP>> \o Encode(items[1].v, level)
        \o (IF Len(items) = 1 THEN <<>>
            ELSE <<COMMA, LF>> \o EncodeItems(Tail(items), level))

\* json.dumps(v, indent=4)
dumps(v) == Encode(v, 0)

\* ------------------------------------------------------------- the shell
\* no job script has been started
JobsIdle ==
    /\ jpc = "shell"
    /\ script = "none"
    /\ argv_len = 0
    /\ text = <<>>
    /\ jsonJob = NoVal
    /\ shaderText = <<>>
    /\ opened = {}
    /\ out = <<>>
    /\ status = -1
    /\ prev = <<"none", -1>>

\* a script is started with one to four words on its command line
StartScript ==
    /\ jpc = "shell"
    /\ \E sc \in {"extract", "replace"} : \E n \in 1..4 :
           /\ script' = sc
           /\ argv_len' = n
    /\ jpc' = "argcheck"
    /\ prev' = <<script, status>>
    /\ text' = <<>>
    /\ jsonJob' = NoVal
    /\ shaderText' = <<>>
    /\ opened' = {}
    /\ out' = <<>>
    /\ status' = -1
    /\ job_before' = job_file
    /\ UNCHANGED <<job_file, shader_file>>
    /\ UNCHANGED gvars

\* the process has ended and the shell takes over
BackToShell ==
    /\ jpc = "exited"
    /\ jpc' = "shell"
    /\ UNCHANGED <<script, argv_len, job_file, shader_file, text, jsonJob, shaderText,
                   opened, out, status, prev, job_before>>
    /\ UNCHANGED gvars

\* an exception no one catches: traceback on stderr, exit status 1
Crash ==
    /\ status' = 1
    /\ jpc' = "exited"

\* ------------------------------------------------------------- extract_shader_from_job.py
ExtractArgsTooFew(n) == n < 2

\* if len(sys.argv) != 2:
ExtractArgsWrong(n) == n # 2

\* print("Usage: ..."); sys.exit(1)
ExtractUsage ==
    /\ jpc = "argcheck"
    /\ script = "extract"
    /\ ExtractArgsWrong(argv_len)
    /\ out' = out \o print(<<USAGE_EXTRACT>>)
    /\ status' = 1
    /\ jpc' = "exited"
    /\ UNCHANGED <<script, argv_len, job_file, shader_file, text, jsonJob, shaderText,
                   opened, prev, job_before>>
    /\ UNCHANGED gvars

\* open(sys.argv[1], 'r').read()
ExtractRead ==
    /\ jpc = "argcheck"
    /\ script = "extract"
    /\ ~ExtractArgsWrong(argv_len)
    /\ opened' = opened \cup {"job"}
    /\ text' = read(job_file)
    /\ jpc' = "print"
    /\ UNCHANGED <<script, argv_len, job_file, shader_file, jsonJob, shaderText, out,
                   status, prev, job_before>>
    /\ UNCHANGED gvars

\* str(v) as print writes it; a dict is written in Python's own notation
PyStr(v) ==
    IF v.t \in {"str", "num"} THEN v.s ELSE <<"repr(dict)">>

\* print(json.loads(...)["shaderText"])
ExtractPrint ==
    /\ jpc = "print"
    /\ script = "extract"
    /\ LET r == loads(text)
       IN  IF r.ok /\ r.val.t = "obj" /\ HasKey(r.val.items, SHADERTEXT)
           THEN /\ jsonJob' = r.val
                /\ out' = out \o print(PyStr(GetItem(r.val.items, SHADERTEXT)))
                /\ status' = 0
                /\ jpc' = "exited"
           ELSE /\ Crash
                /\ UNCHANGED <<jsonJob, out>>
    /\ UNCHANGED <<script, argv_len, job_file, shader_file, text, shaderText, opened,
                   prev, job_before>>
    /\ UNCHANGED gvars

\* ------------------------------------------------------------- replace_shader_in_job.py
\* if len(sys.argv) != 3:
ReplaceArgsWrong(n) == n # 3

\* print("Usage: ..."); sys.exit(1)
ReplaceUsage ==
    /\ jpc = "argcheck"
    /\ script = "replace"
    /\ ReplaceArgsWrong(argv_len)
    /\ out' = out \o print(<<USAGE_REPLACE>>)
    /\ status' = 1
    /\ jpc' = "exited"
    /\ UNCHANGED <<script, argv_len, job_file, shader_file, text, jsonJob, shaderText,
                   opened, prev, job_before>>
    /\ UNCHANGED gvars

\* jsonJob = json.loads(open(sys.argv[1], 'r').read())
ReplaceLoadJob ==
    /\ jpc = "argcheck"
    /\ script = "replace"
    /\ ~ReplaceArgsWrong(argv_len)
    /\ opened' = opened \cup {"job"}
    /\ text' = read(job_file)
    /\ LET r == loads(read(job_file))
       IN  IF r.ok
           THEN /\ jsonJob' = r.val
                /\ jpc' = "read_shader"
                /\ UNCHANGED status
           ELSE /\ Crash
                /\ UNCHANGED jsonJob
    /\ UNCHANGED <<script, argv_len, job_file, shader_file, shaderText, out, prev,
                   job_before>>
    /\ UNCHANGED gvars

\* shaderText = open(sys.argv[2], 'r').read()
ReplaceReadShader ==
    /\ jpc = "read_shader"
    /\ opened' = opened \cup {"shader"}
    /\ shaderText' = read(shader_file)
    /\ jpc' = "assign"
    /\ UNCHANGED <<script, argv_len, job_file, shader_file, text, jsonJob, out, status,
                   prev, job_before>>
    /\ UNCHANGED gvars

AssignShaderTextIfMissing(job, txt) ==
    IF HasKey(job.items, SHADERTEXT) THEN job
    ELSE ObjVal(Append(job.items, [k |-> SHADERTEXT, v |-> StrVal(txt)]))

AssignShaderTextFresh(job, txt) == ObjVal(<<[k |-> SHADERTEXT, v |-> StrVal(txt)]>>)

\* jsonJob['shaderText'] = shaderText
AssignShaderText(job, txt) == ObjVal(SetItem(job.items, SHADERTEXT, StrVal(txt)))

\* line 10; a string or a number takes no item assignment (TypeError)
ReplaceAssign ==
    /\ jpc = "assign"
    /\ IF jsonJob.t = "obj"
       THEN /\ jsonJob' = AssignShaderText(jsonJob, shaderText)
            /\ jpc' = "open_w"
            /\ UNCHANGED status
       ELSE /\ Crash
            /\ UNCHANGED jsonJob
    /\ UNCHANGED <<script, argv_len, job_file, shader_file, text, shaderText, opened,
                   out, prev, job_before>>
    /\ UNCHANGED gvars

\* open(sys.argv[1], 'w'): the job file is emptied
ReplaceOpenW ==
    /\ jpc = "open_w"
    /\ job_file' = <<>>
    /\ jpc' = "write"
    /\ UNCHANGED <<script, argv_len, shader_file, text, jsonJob, shaderText, opened,
                   out, status, prev, job_before>>
    /\ UNCHANGED gvars

\* .write(json.dumps(jsonJob, indent=4)); the file object is dropped and closed
ReplaceWrite ==
    /\ jpc = "write"
    /\ job_file' = job_file \o dumps(jsonJob)
    /\ status' = 0
    /\ jpc' = "exited"
    /\ UNCHANGED <<script, argv_len, shader_file, text, jsonJob, shaderText, opened,
                   out, prev, job_before>>
    /\ UNCHANGED gvars

\* ------------------------------------------------------------- specifications
\* main() of generateUniformityGraph.py has not been started
MainIdle ==
    /\ pc = "not_run"
    /\ tint_output = <<>>
    /\ tint_state = "not_started"
    /\ stdout = <<>>
    /\ lines = <<>>
    /\ idx = 0
    /\ depth = 0
    /\ in_graph = FALSE
    /\ result = <<>>
    /\ graph = <<>>
    /\ tmp_exists = FALSE
    /\ tmp_buffer = <<>>
    /\ tmp_content = <<>>
    /\ dot_state = "not_run"
    /\ dot_status = -1
    /\ console = <<>>
    /\ exit_status = -1

\* one run of generateUniformityGraph.py
Init ==
    /\ MainStart
    /\ JobsIdle
    /\ job_file = <<>>
    /\ shader_file = <<>>
    /\ job_before = <<>>

Spec == Init /\ [][Next]_vars

\* a shell session that runs the two job scripts on one job file and one shader file
InitJob ==
    /\ MainIdle
    /\ JobsIdle
    /\ job_file \in JobFiles
    /\ shader_file \in ShaderFiles
    /\ job_before = job_file

NextJob ==
    \/ StartScript
    \/ BackToShell
    \/ ExtractUsage
    \/ ExtractRead
    \/ ExtractPrint
    \/ ReplaceUsage
    \/ ReplaceLoadJob
    \/ ReplaceReadShader
    \/ ReplaceAssign
    \/ ReplaceOpenW
    \/ ReplaceWrite

SpecJob == InitJob /\ [][NextJob]_vars

\* ------------------------------------------------------------- properties
\* ''.join(ls)
RECURSIVE Concat(_)
Concat(ls) == IF ls = <<>> THEN <<>> ELSE ls[1] \o Concat(Tail(ls))

\* the line is "digraph", white space, "G", optional white space, "{", anything
StartPattern(line) ==
    \E i \in 3..Len(line) : \E j \in (i + 1)..Len(line) :
        /\ line[1] = DIGRAPH
        /\ \A k \in 2..(i - 1) : IsSpace(line[k])
        /\ line[i] = "G"
        /\ \A k \in (i + 1)..(j - 1) : IsSpace(line[k])
        /\ line[j] = LBRACE

Min(S) == CHOOSE k \in S : \A m \in S : k <= m

\* extract_digraph has returned and main holds its value in graph
Returned == pc \notin {"popen", "communicate", "extract", "scan", "return"}

\* index of the first line that matches the start pattern, 0 if there is none
StartLine ==
    LET S == { i \in 1..Len(lines) : StartPattern(lines[i]) }
    IN  IF S = {} THEN 0 ELSE Min(S)

\* braces opened minus braces closed on lines a..b
RECURSIVE BraceSum(_, _, _)
BraceSum(ls, a, b) ==
    IF a > b THEN 0
    ELSE count(ls[a], LBRACE) - count(ls[a], RBRACE) + BraceSum(ls, a + 1, b)

\* index of the line on which the block that opens at StartLine closes, 0 if none
ClosingLine ==
    IF StartLine = 0 THEN 0
    ELSE LET S == { e \in StartLine..Len(lines) : BraceSum(lines, StartLine, e) <= 0 }
         IN  IF S = {} THEN 0 ELSE Min(S)

\* the output holds a balanced digraph block
BalancedBlock ==
    /\ StartLine > 0
    /\ ClosingLine > 0
    /\ BraceSum(lines, StartLine, ClosingLine) = 0

BlockLines == SubSeq(lines, StartLine, ClosingLine)

\* the block closes a brace before its closing line
NestedBlock ==
    /\ BalancedBlock
    /\ \E i \in StartLine..(ClosingLine - 1) : count(lines[i], RBRACE) > 0

\* the for loop was left by break
StoppedEarly == Returned /\ idx <= Len(lines)

\* C1: for any compiler output that holds a balanced digraph block, wherever
\* it begins, extract_digraph returns that block's text unmodified.
C1_BlockTextUnmodified ==
    (Returned /\ BalancedBlock) => graph = JoinLF(BlockLines)

\* C2: when the block is preceded by lines that do not match the start pattern
\* and followed by further lines, the result is the block's lines, start line to
\* closing line, concatenated without separators, and nothing else.
C2_SurroundedBlockConcatenated ==
    (Returned /\ BalancedBlock /\ StartLine > 1 /\ ClosingLine < Len(lines))
        => graph = Concat(BlockLines)

\* C3: for a block with nested braces the result holds every line of the block up
\* to and including the line on which the depth returns to zero and no line after.
C3_NestedBlockWhole ==
    (Returned /\ NestedBlock) => graph = Concat(BlockLines)

\* C4: when no line matches the start pattern the result is the empty string,
\* whatever braces the lines contain.
C4_NoStartGivesEmpty ==
    (Returned /\ StartLine = 0) => graph = <<>>

C4_Witness ==
    /\ pc = "check"
    /\ StartLine = 0
    /\ Len(lines) >= 3
    /\ idx > Len(lines)
    /\ \E i \in 1..Len(lines) : lines[i] = <<DIGRAPH, "G", LBRACE>>
    /\ \E i \in 1..Len(lines) : count(lines[i], RBRACE) > 0
    /\ graph = <<>>

\* C9: the scan is left early only at a line at or after the start line; a line
\* before the start line never ends it; and when the depth never returns to
\* zero after the start the scan reaches the end of input and the result is the
\* unterminated block.
C9_ScanStopsOnlyInsideBlock ==
    /\ StoppedEarly => (StartLine > 0 /\ idx >= StartLine /\ in_graph)
    /\ (Returned /\ StartLine > 0 /\ ClosingLine = 0)
           => (idx > Len(lines) /\ graph = Concat(SubSeq(lines, StartLine, Len(lines))))

\* C7: when extract_digraph returns the empty string main prints the diagnostic
\* and exits with status 1; dot is never run and no temporary file is made.
C7_EmptyGraphExits ==
    (Returned /\ graph = <<>>) =>
        /\ pc \in {"check", "exited"}
        /\ ~tmp_exists
        /\ dot_state = "not_run"
        /\ pc = "exited" =>
               /\ exit_status = 1
               /\ console = <<"Could not find a digraph in the compiler output">>

C7_Witness ==
    /\ pc = "exited"
    /\ graph = <<>>
    /\ Len(lines) >= 2
    /\ exit_status = 1
    /\ dot_state = "not_run"

\* C10: the compiler has ended before extraction begins; while dot runs the
\* temporary file exists and holds the whole extracted graph; once dot has
\* returned, with either status, the file is gone when main ends.
C10_TempFileLifetime ==
    /\ pc \notin {"popen", "communicate"} => (tint_state = "done" /\ stdout = tint_output)
    /\ dot_state = "running" => (tmp_exists /\ tmp_content = graph /\ graph # <<>>)
    /\ (pc = "exited" /\ dot_state = "done") => (~tmp_exists /\ dot_status \in {0, 1})

C10_Witness ==
    /\ pc = "exited"
    /\ dot_state = "done"
    /\ dot_status = 1
    /\ ~tmp_exists
    /\ graph # <<>>

\* the extractor has ended a run that followed a successful run of the replacer
\* on the same job file
RoundTripDone ==
    /\ script = "extract"
    /\ argv_len = 2
    /\ jpc = "exited"
    /\ prev = <<"replace", 0>>

\* C5 as stated: after the replacer has put the shader file V into the job, the
\* extractor yields exactly V.
C5_RoundTripExact ==
    RoundTripDone => (status = 0 /\ out = shader_file)

\* line breaks of V as Python's text mode reads them: "\r\n" and "\r" are "\n"
RECURSIVE UniversalNewlines(_)
UniversalNewlines(v) ==
    IF v = <<>> THEN <<>>
    ELSE IF Len(v) >= 2 /\ v[1] = CR /\ v[2] = LF
         THEN <<LF>> \o UniversalNewlines(SubSeq(v, 3, Len(v)))
    ELSE IF v[1] = CR THEN <<LF>> \o UniversalNewlines(Tail(v))
    ELSE <<v[1]>> \o UniversalNewlines(Tail(v))

\* C5 amended: after the replacer has put the shader file V into the job, the
\* extractor succeeds and writes V, its line breaks read as "\n", and one more
\* line break.
C5_RoundTripNewlines ==
    RoundTripDone => (status = 0 /\ out = UniversalNewlines(shader_file) \o <<LF>>)

C5_Witness ==
    /\ RoundTripDone
    /\ status = 0
    /\ shader_file = <<"a", CR, LF, "a">>
    /\ out = <<"a", LF, "a", LF>>
    /\ HasKey(jsonJob.items, <<"k">>)

\* the replacer has ended a run with exit status 0
ReplaceDone ==
    /\ script = "replace"
    /\ jpc = "exited"
    /\ status = 0

\* the items of the JSON object a job file holds, as json.loads reads them
JobItems(file) == loads(UniversalNewlines(file)).val.items

Keys(items) == { items[i].k : i \in 1..Len(items) }

\* every field but shaderText is in the job with the value it had before
OtherFieldsKept ==
    LET old == JobItems(job_before)
        new == JobItems(job_file)
    IN  /\ loads(UniversalNewlines(job_file)).ok
        /\ loads(UniversalNewlines(job_file)).val.t = "obj"
        /\ Keys(new) = Keys(old) \cup {SHADERTEXT}
        /\ \A k \in Keys(old) \ {SHADERTEXT} : GetItem(new, k) = GetItem(old, k)

\* C6 as stated: after a successful run of the replacer every other field of
\* the job has the value it had and shaderText equals the shader file's contents.
C6_OnlyShaderTextChangedExact ==
    ReplaceDone =>
        /\ OtherFieldsKept
        /\ GetItem(JobItems(job_file), SHADERTEXT) = StrVal(shader_file)

\* C6 amended: after a successful run of the replacer every other field of the
\* job has the value it had and shaderText equals the shader file's contents with
\* "\r\n" and "\r" read as "\n".
C6_OnlyShaderTextChanged ==
    ReplaceDone =>
        /\ OtherFieldsKept
        /\ GetItem(JobItems(job_file), SHADERTEXT) = StrVal(UniversalNewlines(shader_file))

C6_Witness ==
    /\ ReplaceDone
    /\ job_file # job_before
    /\ Keys(JobItems(job_before)) = {SHADERTEXT, <<"k">>}
    /\ GetItem(JobItems(job_file), <<"k">>).t = "obj"
    /\ shader_file = <<CR>>
    /\ GetItem(JobItems(job_file), SHADERTEXT) = StrVal(<<LF>>)

\* the running script was started with the wrong number of arguments
WrongArgs ==
    \/ script = "extract" /\ argv_len # 2
    \/ script = "replace" /\ argv_len # 3

\* C8: with a wrong number of arguments the script prints its usage message and
\* exits with status 1; it opens no file and the job file is as it was.
C8_WrongArgsUsage ==
    WrongArgs =>
        /\ jpc \in {"argcheck", "exited", "shell"}
        /\ opened = {}
        /\ job_file = job_before
        /\ jpc # "argcheck" =>
               /\ status = 1
               /\ out = <<IF script = "extract" THEN USAGE_EXTRACT ELSE USAGE_REPLACE, LF>>

C8_Witness ==
    /\ script = "extract"
    /\ argv_len = 3
    /\ jpc = "exited"
    /\ status = 1
    /\ out = <<USAGE_EXTRACT, LF>>
    /\ job_file # <<>>
    /\ opened = {}

====
